---- MODULE Spec2Model ----
(***************************************************************************)
(* Model of the Lucid Engine scaffold script (src/a.py).                   *)
(*                                                                         *)
(* The filesystem is a function from paths (sequences of path components,  *)
(* relative to the working directory) to entries with a kind and a         *)
(* content.  main and create_directory_tree are modelled step by step: one *)
(* action per loop iteration of create_directory_tree (one tree entry),    *)
(* one per return of a call frame, one per post-walk write_text.           *)
(***************************************************************************)
EXTENDS Integers, Sequences, FiniteSets, TLC

VARIABLES
  fs,            \* the filesystem: path -> [kind, content]
  pc,            \* position of the running program
  stack,         \* call stack of create_directory_tree frames
  project_name,  \* argument of main
  exc,           \* exception that left the program ("none" if none)
  runs,          \* number of runs of main started so far
  fs0,           \* the filesystem before the first run
  snap,          \* the filesystem when the latest re-run was started
  fault,         \* path at which the environment refuses an operation
  handled        \* paths of the entries the loop has taken up, in order

vars == <<fs, pc, stack, project_name, exc, runs, fs0, snap, fault, handled>>

(***************************************************************************)
(* Bounds of the model.                                                    *)
(***************************************************************************)
MaxRuns == 2
MaxSeeds == 1

(***************************************************************************)
(* The tree description of main (src/a.py lines 38-481).  A dict entry     *)
(* `name: None` is File(name); an entry `name: {...}` is Dir(name, items)  *)
(* with the items in the order of the literal (dict iteration order).      *)
(***************************************************************************)
File(name) == [name |-> name, subtree_is_None |-> TRUE, subtree |-> <<>>]

Dir(name, items) == [name |-> name, subtree_is_None |-> FALSE, subtree |-> items]

tree ==
  <<
    Dir("lucid-engine", <<
      File("LICENSE.md"),
      File("README.md"),
      Dir("build", <<
        File("CMakeLists.txt"),
        File("lucid-stack-builder.py"),
        File("Cargo.toml"),
        Dir("platform", <<
          File("android.toml"),
          File("vulkan-cmake")
        >>),
        Dir("dist", <<
          File("lucid-trial.zip"),
          File("lucid-full-src.tar.gz")
        >>)
      >>),
      Dir("workspaces", <<
        File("Cargo.toml"),
        Dir("meta", <<
          Dir("unicity", <<
            File("Cargo.toml"),
            Dir("src", <<
              File("lib.rs"),
              File("graph.rs"),
              File("reflection.rs")
            >>),
            Dir("examples", <<
              File("dep_viz.rs")
            >>),
            Dir("tests", <<
              File("graph_cycle_test.rs")
            >>)
          >>),
          Dir("serializer", <<
            File("Cargo.toml"),
            Dir("src", <<
              File("lib.rs"),
              File("stream.rs")
            >>),
            Dir("examples", <<
              File("replay_demo.rs")
            >>)
          >>),
          Dir("editor", <<
            File("Cargo.toml"),
            Dir("src", <<
              File("lib.rs"),
              File("imgui_panels.rs"),
              File("fusion_mode.rs")
            >>),
            Dir("examples", <<
              File("live_debug.rs")
            >>)
          >>),
          Dir("neural", <<
            File("Cargo.toml"),
            Dir("src", <<
              File("lib.rs"),
              File("models.rs"),
              File("suggestions.rs")
            >>),
            Dir("examples", <<
              File("prompt_gen.rs")
            >>)
          >>),
          Dir("qiss", <<
            File("Cargo.toml"),
            Dir("src", <<
              File("lib.rs"),
              File("orchestrator.rs")
            >>),
            Dir("examples", <<
              File("cloud_preview.rs")
            >>)
          >>),
          Dir("link", <<
            File("Cargo.toml"),
            Dir("src", <<
              File("lib.rs"),
              File("rollback.rs")
            >>),
            Dir("examples", <<
              File("mp_sync.rs")
            >>)
          >>),
          Dir("sdk", <<
            File("Cargo.toml"),
            Dir("src", <<
              File("lib.rs"),
              Dir("templates", <<
                File("quantum_stack.rs")
              >>)
            >>),
            Dir("examples", <<
              File("custom_stack.rs")
            >>)
          >>)
        >>),
        Dir("rust", <<
          Dir("lucid-ffi", <<
            File("Cargo.toml"),
            Dir("src", <<
              File("ffi.rs")
            >>)
          >>)
        >>)
      >>),
      Dir("stacks", <<
        Dir("Lucid-Illuminati", <<
          Dir("src", <<
            Dir("core", <<
              File("LI_SceneGraph.cpp"),
              File("LI_PostProcess.cpp")
            >>),
            Dir("features", <<
              Dir("RayTracing", <<
                File("LI_PathTracer.cpp"),
                File("LI_VXGI.cpp")
              >>),
              Dir("Volumetrics", <<
                File("LI_FogRenderer.cpp")
              >>),
              Dir("GPUCompute", <<
                File("LI_ParticleShaders.cpp")
              >>),
              Dir("NeuralShaders", <<
                File("LI_NeuralGen.cpp")
              >>)
            >>),
            Dir("pipelines", <<
              File("LI_ShaderVaultImporter.py")
            >>),
            Dir("meta-hooks", <<
              File("LI_EntityStream.cpp")
            >>)
          >>),
          Dir("include", <<>>),
          Dir("tests", <<>>),
          Dir("bindings", <<>>)
        >>),
        Dir("Lucid-Disassembly", <<
          Dir("src", <<
            Dir("core", <<
              File("LD_RigidBody.cpp"),
              File("LD_Collision.cpp")
            >>),
            Dir("features", <<
              Dir("Destructibles", <<
                File("LD_ProceduralDebris.cpp"),
                File("LD_ForceFields.cpp")
              >>),
              Dir("Fluids", <<
                File("LD_ParticleFluids.cpp")
              >>),
              Dir("Vehicles", <<
                File("LD_CharacterPhysics.cpp")
              >>)
            >>),
            Dir("pipelines", <<
              File("LD_PhysicsDebugger.py")
            >>),
            Dir("meta-hooks", <<
              File("LD_ReplayBuffer.cpp")
            >>)
          >>),
          Dir("include", <<>>),
          Dir("tests", <<>>),
          Dir("bindings", <<>>)
        >>),
        Dir("Lucid-Harmonia", <<
          Dir("src", <<
            Dir("core", <<
              File("LH_SpatialMixer.cpp"),
              File("LH_EffectsBus.cpp")
            >>),
            Dir("features", <<
              Dir("Procedural", <<
                File("LH_DynamicTracks.cpp")
              >>),
              Dir("PhysicsIntegration", <<
                File("LH_EnvInteraction.cpp")
              >>)
            >>),
            Dir("pipelines", <<
              File("LH_AudioImporter.py")
            >>)
          >>),
          Dir("include", <<>>),
          Dir("tests", <<>>),
          Dir("bindings", <<>>)
        >>),
        Dir("Lucid-Diffuser", <<
          Dir("src", <<
            Dir("core", <<
              File("LD_InputMapper.cpp"),
              File("LD_NetSync.cpp")
            >>),
            Dir("features", <<
              Dir("Multiplayer", <<
                File("LD_RPCSystem.cpp")
              >>),
              Dir("HotReload", <<
                File("LD_ConfigReloader.cpp")
              >>)
            >>),
            Dir("pipelines", <<
              File("LD_VRTracker.py")
            >>)
          >>),
          Dir("include", <<>>),
          Dir("tests", <<>>),
          Dir("bindings", <<>>)
        >>),
        Dir("Lucid-Charisma", <<
          Dir("src", <<
            Dir("core", <<
              File("LC_SkeletalRig.cpp"),
              File("LC_StateMachine.cpp")
            >>),
            Dir("features", <<
              Dir("Procedural", <<
                File("LC_MotionBlending.cpp")
              >>),
              Dir("Facial", <<
                File("LC_MorphTargets.cpp")
              >>),
              Dir("Ragdoll", <<
                File("LC_PhysicsRagdoll.cpp")
              >>)
            >>),
            Dir("pipelines", <<
              File("LC_AnimImporter.py")
            >>)
          >>),
          Dir("include", <<>>),
          Dir("tests", <<>>),
          Dir("bindings", <<>>)
        >>),
        Dir("Lucid-Ekpyrosa", <<
          Dir("src", <<
            Dir("core", <<
              File("LE_SceneEditor.cpp"),
              File("LE_ScriptAPI.cpp")
            >>),
            Dir("features", <<
              Dir("Procedural", <<
                File("LE_TerrainGen.cpp"),
                File("LE_WorldPartition.cpp")
              >>),
              Dir("Debugging", <<
                File("LE_PerfVisualizer.cpp")
              >>)
            >>),
            Dir("pipelines", <<
              File("LE_AssetPipeline.py")
            >>)
          >>),
          Dir("include", <<>>),
          Dir("tests", <<>>),
          Dir("bindings", <<>>)
        >>),
        Dir("Lucid-Alrena", <<
          Dir("src", <<
            Dir("core", <<
              File("LA_BehaviorTree.cpp"),
              File("LA_Pathfinder.cpp")
            >>),
            Dir("features", <<
              Dir("Procedural", <<
                File("LA_ContentGen.cpp")
              >>),
              Dir("Adaptive", <<
                File("LA_LearningNPCs.cpp")
              >>),
              Dir("EventHooks", <<
                File("LA_GameLogic.cpp")
              >>)
            >>),
            Dir("pipelines", <<
              File("LA_AIDebugger.py")
            >>),
            Dir("meta-hooks", <<
              File("LA_NeuralAdapt.cpp")
            >>)
          >>),
          Dir("include", <<>>),
          Dir("tests", <<>>),
          Dir("bindings", <<>>)
        >>),
        Dir("Lucid-LaunchPad", <<
          Dir("src", <<
            Dir("core", <<
              File("LLP_BuildSystem.cpp"),
              File("LLP_Packager.cpp")
            >>),
            Dir("features", <<
              Dir("HotPatching", <<
                File("LLP_Incremental.cpp")
              >>),
              Dir("Profiling", <<
                File("LLP_Telemetry.cpp")
              >>),
              Dir("Marketplace", <<
                File("LLP_PluginSystem.cpp")
              >>)
            >>),
            Dir("pipelines", <<
              File("LLP_ExportRunner.py")
            >>)
          >>),
          Dir("include", <<>>),
          Dir("tests", <<>>),
          Dir("bindings", <<>>)
        >>)
      >>),
      Dir("core", <<
        Dir("src", <<
          File("Core_ECS.cpp"),
          File("Core_UnicityBridge.cpp"),
          File("Core_QissTelemetry.cpp")
        >>),
        Dir("include", <<>>),
        Dir("archetypes", <<
          File("SerializableDestructible.ecs"),
          File("NeuralNPC.ecs")
        >>)
      >>),
      Dir("plugins", <<
        Dir("Lucid-QuantumExt", <<
          Dir("src", <<>>)
        >>),
        Dir("Lucid-VRExt", <<
          Dir("src", <<>>)
        >>)
      >>)
    >>),
    Dir("Content", <<
      Dir("Meta", <<
        Dir("EditorThemes", <<>>),
        Dir("Models", <<
          File("shader_gen.torch")
        >>)
      >>),
      Dir("Blueprints", <<
        Dir("Meta", <<>>),
        Dir("Alrena", <<
          File("BT_AdaptiveGuard.uasset")
        >>),
        Dir("Charisma", <<>>)
      >>),
      Dir("Meshes", <<
        Dir("Illuminati", <<>>),
        Dir("Disassembly", <<>>),
        Dir("Ekpyrosa", <<>>)
      >>),
      Dir("Materials", <<
        Dir("Procedural", <<>>)
      >>),
      Dir("Sounds", <<
        Dir("Procedural", <<>>)
      >>),
      Dir("Maps", <<
        Dir("PhysicsDemo", <<>>),
        Dir("AIDemo", <<>>)
      >>),
      Dir("Animations", <<
        Dir("Facial", <<>>)
      >>),
      Dir("Textures", <<>>)
    >>),
    Dir("Source", <<
      Dir("MyLucidGame", <<
        Dir("Private", <<
          File("GameOrchestrator.cpp"),
          File("MP_Session.cpp"),
          File("GameWorld.cpp"),
          File("CustomAlrena.cpp")
        >>),
        Dir("Public", <<>>)
      >>),
      Dir("Stacks-Overrides", <<
        Dir("Disassembly", <<>>),
        Dir("Neural", <<>>)
      >>)
    >>),
    Dir("Config", <<
      Dir("meta", <<
        File("Unicity.yaml"),
        File("Serializer-Versioning.ini"),
        File("Editor-Docks.ini"),
        File("Neural-Prompts.toml"),
        File("Qiss-Cloud.yaml"),
        File("Link-Protocol.ini"),
        File("License-Auth.ini")
      >>),
      Dir("stack-overrides", <<
        File("Illuminati-RayTracing.ini"),
        File("Disassembly-Fluids.yaml"),
        File("Harmonia-Spatial.yaml"),
        File("Diffuser-Net.ini"),
        File("Charisma-Anim.ini"),
        File("Ekpyrosa-PCG.yaml"),
        File("Alrena-Behavior.yaml"),
        File("LaunchPad-Build.ini")
      >>),
      Dir("cross-stack", <<
        File("ECS-Archetypes.yaml")
      >>),
      File("DefaultEngine.ini")
    >>),
    Dir("Builds", <<
      Dir("target", <<
        Dir("debug", <<>>)
      >>),
      Dir("cloud", <<>>),
      Dir("Windows", <<
        File("MyLucidGame.exe")
      >>),
      Dir("Android", <<>>),
      Dir("Web", <<>>)
    >>),
    Dir("Docs", <<
      File("Meta-Overview.md"),
      File("Rust-Interop.md"),
      File("SDK-Examples.md"),
      File("Licensing-Model.md"),
      File("Lucid-Illuminati-Features.md"),
      File("Cross-Stack-Synergies.md")
    >>),
    Dir("Telemetry", <<
      File("session-2025-10-07.json")
    >>),
    Dir("examples", <<
      Dir("lucid-mp-demo", <<
        File("Cargo.toml"),
        Dir("src", <<
          File("main.rs")
        >>)
      >>)
    >>),
    File(".gitignore")
  >>

(***************************************************************************)
(* Paths.                                                                  *)
(***************************************************************************)
RECURSIVE Split(_, _, _)
Split(s, i, cur) ==
  IF i > Len(s) THEN <<cur>>
  ELSE IF SubSeq(s, i, i) = "/" THEN <<cur>> \o Split(s, i + 1, "")
  ELSE Split(s, i + 1, cur \o SubSeq(s, i, i))

KeepComponent(c) == c # "" /\ c # "."

\* Path(project_name): a relative path string split into its components.
Path(s) == SelectSeq(Split(s, 1, ""), KeepComponent)

\* base_path / name
Join(base_path, name) == Append(base_path, name)

Parent(p) == SubSeq(p, 1, Len(p) - 1)

IsPrefix(p, q) == Len(p) <= Len(q) /\ SubSeq(q, 1, Len(p)) = p

(***************************************************************************)
(* Filesystem operations, as the operating system performs them.  Each     *)
(* returns the resulting filesystem and the exception raised ("none" when  *)
(* the call succeeds).  refused = TRUE is the environment refusing the     *)
(* operation (permission denied).                                          *)
(***************************************************************************)
Exists(f, p) == p \in DOMAIN f

IsDir(f, p) == p \in DOMAIN f /\ f[p].kind = "dir"

IsFile(f, p) == p \in DOMAIN f /\ f[p].kind = "file"

DirEntry == [kind |-> "dir", content |-> ""]

FileEntry(text) == [kind |-> "file", content |-> text]

Put(f, p, e) == [q \in DOMAIN f \cup {p} |-> IF q = p THEN e ELSE f[q]]

\* Error of creating a new entry at p, which does not exist.
CreateError(f, p) ==
  IF ~Exists(f, Parent(p)) THEN "FileNotFoundError"
  ELSE IF ~IsDir(f, Parent(p)) THEN "NotADirectoryError"
  ELSE "none"

\* Path.mkdir(exist_ok=True)
Mkdir(f, p, refused) ==
  IF refused THEN [fs |-> f, exc |-> "PermissionError"]
  ELSE IF Exists(f, p)
    THEN [fs |-> f, exc |-> IF IsDir(f, p) THEN "none" ELSE "FileExistsError"]
  ELSE IF CreateError(f, p) # "none" THEN [fs |-> f, exc |-> CreateError(f, p)]
  ELSE [fs |-> Put(f, p, DirEntry), exc |-> "none"]

\* Variant of Touch that empties a file that exists (open for writing, close).
TouchTruncate(f, p, refused) ==
  IF refused THEN [fs |-> f, exc |-> "PermissionError"]
  ELSE IF IsDir(f, p) THEN [fs |-> f, exc |-> "IsADirectoryError"]
  ELSE IF ~Exists(f, p) /\ CreateError(f, p) # "none"
    THEN [fs |-> f, exc |-> CreateError(f, p)]
  ELSE [fs |-> Put(f, p, FileEntry("")), exc |-> "none"]

\* Path.touch(): an existing entry only gets a new modification time.
Touch(f, p, refused) ==
  IF refused THEN [fs |-> f, exc |-> "PermissionError"]
  ELSE IF Exists(f, p) THEN [fs |-> f, exc |-> "none"]
  ELSE IF CreateError(f, p) # "none" THEN [fs |-> f, exc |-> CreateError(f, p)]
  ELSE [fs |-> Put(f, p, FileEntry("")), exc |-> "none"]

\* open(p, 'w') followed by write(text), and Path.write_text(text).
WriteText(f, p, text, refused) ==
  IF refused THEN [fs |-> f, exc |-> "PermissionError"]
  ELSE IF IsDir(f, p) THEN [fs |-> f, exc |-> "IsADirectoryError"]
  ELSE IF ~Exists(f, p) /\ CreateError(f, p) # "none"
    THEN [fs |-> f, exc |-> CreateError(f, p)]
  ELSE [fs |-> Put(f, p, FileEntry(text)), exc |-> "none"]

(***************************************************************************)
(* create_directory_tree (src/a.py lines 5-27).                            *)
(***************************************************************************)
DefaultIgnore == {"README.md", "Cargo.toml", "CMakeLists.txt", ".gitignore", "LICENSE.md"}

CodeSuffixes == <<".rs", ".cpp", ".h", ".py", ".lua">>

\* name.endswith(suf)
EndsWith(name, suf) ==
  /\ Len(name) >= Len(suf)
  /\ SubSeq(name, Len(name) - Len(suf) + 1, Len(name)) = suf

\* name.endswith(('.rs', '.cpp', '.h', '.py', '.lua'))
IsCodeFile(name) == \E k \in 1..Len(CodeSuffixes) : EndsWith(name, CodeSuffixes[k])

\* Variant of Placeholder that leaves the file name out.
PlaceholderNoName(name) == "// TODO: Implement\n"

\* f"// TODO: Implement {name}\n"
Placeholder(name) == "// TODO: Implement " \o name \o "\n"

\* The ignore_files argument: None (the default) or an explicit set.
NoneArg == [is_None |-> TRUE, value |-> {}]

SetArg(S) == [is_None |-> FALSE, value |-> S]

\* Lines 10-11: None is replaced by the default set.
EffectiveIgnore(arg) == IF arg.is_None THEN DefaultIgnore ELSE arg.value

\* A call frame of create_directory_tree, positioned at its first entry.
Frame(base_path, t, arg) ==
  [base_path |-> base_path, tree |-> t, i |-> 1, ignore_files |-> EffectiveIgnore(arg)]

\* The environment refuses operation op at path p.
Refused(p, op) == fault.op = op /\ fault.path = p

\* Variant of HandleFile that creates source-code files only.
HandleFileCodeOnly(f, path, name, ignore_files) ==
  IF name \notin ignore_files
    THEN IF IsCodeFile(name)
           THEN WriteText(f, path, Placeholder(name), Refused(path, "open"))
           ELSE [fs |-> f, exc |-> "none"]
    ELSE Touch(f, path, Refused(path, "touch"))

\* Variant of HandleFile that does nothing for a name in the ignore set.
HandleFileSkipIgnored(f, path, name, ignore_files) ==
  IF name \notin ignore_files
    THEN LET t == Touch(f, path, Refused(path, "touch"))
         IN  IF t.exc # "none" THEN t
             ELSE IF IsCodeFile(name)
               THEN WriteText(t.fs, path, Placeholder(name), Refused(path, "open"))
             ELSE t
    ELSE [fs |-> f, exc |-> "none"]

\* Variant of HandleFile that writes the placeholder only into a new file.
HandleFileKeepExisting(f, path, name, ignore_files) ==
  IF name \notin ignore_files
    THEN LET t == Touch(f, path, Refused(path, "touch"))
         IN  IF t.exc # "none" THEN t
             ELSE IF IsCodeFile(name) /\ ~Exists(f, path)
               THEN WriteText(t.fs, path, Placeholder(name), Refused(path, "open"))
             ELSE t
    ELSE Touch(f, path, Refused(path, "touch"))

\* Lines 16-23: the body of the loop for a file entry.
HandleFile(f, path, name, ignore_files) ==
  IF name \notin ignore_files
    THEN LET t == Touch(f, path, Refused(path, "touch"))
         IN  IF t.exc # "none" THEN t
             ELSE IF IsCodeFile(name)
               THEN WriteText(t.fs, path, Placeholder(name), Refused(path, "open"))
             ELSE t
    ELSE Touch(f, path, Refused(path, "touch"))

\* Variant of HandleDir without exist_ok: an existing directory is an error.
HandleDirNoExistOk(f, path) ==
  IF Exists(f, path) THEN [fs |-> f, exc |-> "FileExistsError"]
  ELSE Mkdir(f, path, Refused(path, "mkdir"))

\* Variant of HandleDir that enters the recursion without making the directory.
HandleDirNoMkdir(f, path) == [fs |-> f, exc |-> "none"]

\* Line 25: the directory of a directory entry is made before the recursion.
HandleDir(f, path) == Mkdir(f, path, Refused(path, "mkdir"))

\* Line 27: the recursive call passes the sub-tree and no ignore_files.
RecursiveArg(ignore_files) == NoneArg

\* Variant of AfterCall that swallows the exception and goes on.
AfterCallSwallow(e, okpc, okstack) == [pc |-> okpc, stack |-> okstack, exc |-> e]

\* No try/except anywhere: an exception unwinds every frame and leaves main;
\* otherwise control continues at okpc with okstack.
AfterCall(e, okpc, okstack) ==
  IF e = "none" THEN [pc |-> okpc, stack |-> okstack, exc |-> "none"]
  ELSE [pc |-> "failed", stack |-> <<>>, exc |-> e]

Top == stack[Len(stack)]

\* Variant of Advanced that stays at the same entry.
AdvancedStuck == stack

\* The stack with the top frame moved to its next entry.
Advanced == [stack EXCEPT ![Len(stack)].i = @ + 1]

AtEntry ==
  /\ pc = "walk"
  /\ stack # <<>>
  /\ Top.i <= Len(Top.tree)

Control(c) ==
  /\ pc' = c.pc
  /\ stack' = c.stack
  /\ exc' = c.exc

\* One loop iteration on a file entry (subtree is None).
WalkFile ==
  /\ AtEntry
  /\ Top.tree[Top.i].subtree_is_None
  /\ LET name == Top.tree[Top.i].name
         path == Join(Top.base_path, name)
         r    == HandleFile(fs, path, name, Top.ignore_files)
     IN  /\ fs' = r.fs
         /\ handled' = Append(handled, path)
         /\ Control(AfterCall(r.exc, "walk", Advanced))
  /\ UNCHANGED <<project_name, runs, fs0, snap, fault>>

\* One loop iteration on a directory entry: mkdir, then enter the recursion.
WalkDir ==
  /\ AtEntry
  /\ ~Top.tree[Top.i].subtree_is_None
  /\ LET name == Top.tree[Top.i].name
         path == Join(Top.base_path, name)
         r    == HandleDir(fs, path)
         sub  == Frame(path, Top.tree[Top.i].subtree, RecursiveArg(Top.ignore_files))
     IN  /\ fs' = r.fs
         /\ handled' = Append(handled, path)
         /\ Control(AfterCall(r.exc, "walk", Append(Advanced, sub)))
  /\ UNCHANGED <<project_name, runs, fs0, snap, fault>>

\* The loop of a recursive call is exhausted: return to the calling frame.
WalkReturn ==
  /\ pc = "walk"
  /\ Len(stack) > 1
  /\ Top.i > Len(Top.tree)
  /\ stack' = SubSeq(stack, 1, Len(stack) - 1)
  /\ UNCHANGED <<fs, pc, project_name, exc, runs, fs0, snap, fault, handled>>

(***************************************************************************)
(* main (src/a.py lines 29-500).                                           *)
(***************************************************************************)
ReadmeText == "# Lucid Engine\n\nSource-available game engine. See LICENSE.md for terms.\n\n## Setup\ncargo build --workspace\ncmake ..\n"

LicenseText == "Lucid Engine License\n\nSource-available: Use per EULA. Royalties apply post $1M revenue.\nSDK portions MIT."

BuilderText == "#!/usr/bin/env python3\n\nimport os\n\n# Auto-generate build configs\nprint('Building Lucid stacks...')\n# TODO: Implement\n"

GitignoreText == "# Builds\nbuilds/\ntarget/\n\n# Content temps\nContent/*.tmp\n\n# IDE\n.vscode/\n.idea/\n\n# Logs\nTelemetry/*.log\n"

\* base = Path(project_name)
base == Path(project_name)

ReadmePath == base \o <<"lucid-engine", "README.md">>

LicensePath == base \o <<"lucid-engine", "LICENSE.md">>

BuilderPath == base \o <<"lucid-engine", "build", "lucid-stack-builder.py">>

GitignorePath == base \o <<".gitignore">>

\* Lines 34-35 and the call of line 483.
MainStart ==
  /\ pc = "start"
  /\ LET r == Mkdir(fs, base, Refused(base, "mkdir"))
     IN  /\ fs' = r.fs
         /\ handled' = <<>>
         /\ Control(AfterCall(r.exc, "walk", <<Frame(base, tree, NoneArg)>>))
  /\ UNCHANGED <<project_name, runs, fs0, snap, fault>>

\* The call of line 483 returns to main.
MainWalkDone ==
  /\ pc = "walk"
  /\ runs > 0
  /\ Len(stack) = 1
  /\ Top.i > Len(Top.tree)
  /\ stack' = <<>>
  /\ pc' = "write_readme"
  /\ UNCHANGED <<fs, project_name, exc, runs, fs0, snap, fault, handled>>

\* Variant of PostWrite that writes only when the file does not exist yet.
PostWriteIfAbsent(at, path, text, next) ==
  /\ pc = at
  /\ LET r == IF Exists(fs, path) THEN [fs |-> fs, exc |-> "none"]
              ELSE WriteText(fs, path, text, Refused(path, "write_text"))
     IN  /\ fs' = r.fs
         /\ Control(AfterCall(r.exc, next, <<>>))
  /\ UNCHANGED <<project_name, runs, fs0, snap, fault, handled>>

\* One of the four write_text calls of lines 486-497.
PostWrite(at, path, text, next) ==
  /\ pc = at
  /\ LET r == WriteText(fs, path, text, Refused(path, "write_text"))
     IN  /\ fs' = r.fs
         /\ Control(AfterCall(r.exc, next, <<>>))
  /\ UNCHANGED <<project_name, runs, fs0, snap, fault, handled>>

WriteReadme == PostWrite("write_readme", ReadmePath, ReadmeText, "write_license")

WriteLicense == PostWrite("write_license", LicensePath, LicenseText, "write_builder")

WriteBuilder == PostWrite("write_builder", BuilderPath, BuilderText, "write_gitignore")

\* After the last write only the two prints remain: the run is complete.
WriteGitignore == PostWrite("write_gitignore", GitignorePath, GitignoreText, "done")

\* The script is run again with the same project name.
Rerun ==
  /\ pc = "done"
  /\ runs < MaxRuns
  /\ pc' = "start"
  /\ runs' = runs + 1
  /\ snap' = fs
  /\ UNCHANGED <<fs, stack, project_name, exc, fs0, fault, handled>>

(***************************************************************************)
(* Initial states: the project name given on the command line and what the *)
(* working directory holds before the first run.                           *)
(***************************************************************************)
ProjectNames == {"MyLucidGame", "out/Demo"}

Seed(rel, kind, content) == [rel |-> rel, kind |-> kind, content |-> content]

\* Entries that may exist under the base before the first run.
Seeds ==
  { Seed(<<>>, "file", "not a directory\n"),
    Seed(<<>>, "dir", ""),
    Seed(<<"lucid-engine", "README.md">>, "file", "old readme\n"),
    Seed(<<"lucid-engine", "LICENSE.md">>, "file", "MIT\n"),
    Seed(<<".gitignore">>, "file", "node_modules/\n"),
    Seed(<<"lucid-engine", "build", "lucid-stack-builder.py">>, "file", "print('mine')\n"),
    Seed(<<"lucid-engine", "build", "CMakeLists.txt">>, "file", "project(lucid)\n"),
    Seed(<<"lucid-engine", "workspaces", "meta", "unicity", "Cargo.toml">>, "file", "[package]\n"),
    Seed(<<"lucid-engine", "workspaces", "meta", "unicity", "src", "lib.rs">>, "file", "pub fn f() {}\n"),
    Seed(<<"Config", "DefaultEngine.ini">>, "file", "[core]\n"),
    Seed(<<"Content">>, "file", "notes\n"),
    Seed(<<"Docs", "Rust-Interop.md">>, "dir", ""),
    Seed(<<"examples", "lucid-mp-demo", "src", "main.rs">>, "dir", "") }

FaultPoint(rel, op) == [rel |-> rel, op |-> op]

\* Operations the environment may refuse (permission denied).
FaultPoints ==
  { FaultPoint(<<>>, "mkdir"),
    FaultPoint(<<"lucid-engine", "build">>, "mkdir"),
    FaultPoint(<<"lucid-engine", "workspaces", "meta", "sdk", "src", "lib.rs">>, "open"),
    FaultPoint(<<"Telemetry", "session-2025-10-07.json">>, "touch"),
    FaultPoint(<<"lucid-engine", "LICENSE.md">>, "write_text") }

NoFault == [path |-> <<>>, op |-> "none"]

\* No seed lies inside a seeded regular file, and no path is seeded twice.
Consistent(S) ==
  \A s, t \in S :
    s # t => /\ s.rel # t.rel
             /\ ~(s.kind = "file" /\ IsPrefix(s.rel, t.rel))

\* The proper prefixes of a path.
Ancestors(p) == {SubSeq(p, 1, n) : n \in 0..(Len(p) - 1)}

\* The working directory, with a directory `out`, and the seeds under b
\* together with the directories that lead to them.
InitialFs(b, S) ==
  LET seeded == {b \o s.rel : s \in S}
      dirs   == {<<>>, <<"out">>} \cup UNION {Ancestors(p) : p \in seeded}
  IN  [p \in dirs \cup seeded |->
         IF p \in seeded
           THEN LET s == CHOOSE s \in S : b \o s.rel = p
                IN  [kind |-> s.kind, content |-> s.content]
           ELSE DirEntry]

Init ==
  \E name \in ProjectNames, S \in SUBSET Seeds, F \in SUBSET FaultPoints :
    /\ Cardinality(S) + Cardinality(F) <= MaxSeeds
    /\ Cardinality(F) <= 1
    /\ Consistent(S)
    /\ project_name = name
    /\ fs = InitialFs(Path(name), S)
    /\ fault = IF F = {} THEN NoFault
               ELSE LET x == CHOOSE x \in F : TRUE
                    IN  [path |-> Path(name) \o x.rel, op |-> x.op]
    /\ fs0 = fs
    /\ snap = fs
    /\ pc = "start"
    /\ stack = <<>>
    /\ exc = "none"
    /\ runs = 1
    /\ handled = <<>>

Next ==
  \/ MainStart
  \/ WalkFile
  \/ WalkDir
  \/ WalkReturn
  \/ MainWalkDone
  \/ WriteReadme
  \/ WriteLicense
  \/ WriteBuilder
  \/ WriteGitignore
  \/ Rerun

Spec == Init /\ [][Next]_vars

(***************************************************************************)
(* create_directory_tree called on its own with an explicit ignore_files   *)
(* set, on an existing empty base directory.                               *)
(***************************************************************************)
SmallTree ==
  <<
    File("a.rs"),
    File("Cargo.toml"),
    Dir("d", <<
      File("a.rs"),
      File("notes.txt"),
      Dir("e", <<
        File("README.md"),
        File("lib.rs")
      >>)
    >>)
  >>

TreeInputs == {SmallTree, tree}

IgnoreInputs == {SetArg(S) : S \in SUBSET {"a.rs", "lib.rs", "notes.txt"}}

InitTree ==
  \E t \in TreeInputs, arg \in IgnoreInputs :
    /\ project_name = "out"
    /\ fs = InitialFs(Path("out"), {})
    /\ fault = NoFault
    /\ fs0 = fs
    /\ snap = fs
    /\ pc = "walk"
    /\ stack = <<Frame(Path("out"), t, arg)>>
    /\ exc = "none"
    /\ runs = 0
    /\ handled = <<>>

\* The outermost call returns to its caller.
CallReturn ==
  /\ pc = "walk"
  /\ runs = 0
  /\ Len(stack) = 1
  /\ Top.i > Len(Top.tree)
  /\ stack' = <<>>
  /\ pc' = "returned"
  /\ UNCHANGED <<fs, project_name, exc, runs, fs0, snap, fault, handled>>

NextTree ==
  \/ WalkFile
  \/ WalkDir
  \/ WalkReturn
  \/ CallReturn

SpecTree == InitTree /\ [][NextTree]_vars

\* The interpreter runs a single thread to the end: a step that can be taken
\* is taken.
FairSpecTree == SpecTree /\ WF_vars(NextTree)

(***************************************************************************)
(* Vocabulary of the properties.                                           *)
(***************************************************************************)
Last(p) == p[Len(p)]

\* The paths of a tree description placed at b: every key, at its position.
RECURSIVE Flatten(_, _)
Flatten(b, t) ==
  UNION { {Join(b, t[k].name)} \cup
          (IF t[k].subtree_is_None THEN {}
           ELSE Flatten(Join(b, t[k].name), t[k].subtree)) : k \in 1..Len(t) }

\* The paths of the None-valued leaves of a tree description placed at b.
RECURSIVE FileLeaves(_, _)
FileLeaves(b, t) ==
  UNION { IF t[k].subtree_is_None THEN {Join(b, t[k].name)}
          ELSE FileLeaves(Join(b, t[k].name), t[k].subtree) : k \in 1..Len(t) }

\* The paths that exist strictly below b.
Under(f, b) == {p \in DOMAIN f : IsPrefix(b, p) /\ p # b}

\* The base path did not exist before the first run.
StartedClean == ~Exists(fs0, base)

\* The path did not exist before the first run and exists now.
Created(p) == Exists(fs, p) /\ ~Exists(fs0, p)

\* The single line `// TODO: Implement <filename>`.
TodoLine(filename) == "// TODO: Implement " \o filename \o "\n"

HasText(f, p, text) == IsFile(f, p) /\ f[p].content = text

(***************************************************************************)
(* C1. A complete first run of main on a clean target leaves under the     *)
(* base exactly the paths of the flattened tree description: none missing, *)
(* none extra.                                                             *)
(***************************************************************************)
C1_ExactPathSet ==
  (pc = "done" /\ runs = 1 /\ StartedClean)
    => Under(fs, base) = Flatten(base, tree)

C1_Witness ==
  /\ pc = "done"
  /\ runs = 1
  /\ StartedClean
  /\ project_name = "out/Demo"
  /\ Exists(fs, <<"out", "Demo", "lucid-engine", "workspaces", "meta", "sdk", "src", "templates", "quantum_stack.rs">>)
  /\ Exists(fs, <<"out", "Demo", "Builds", "target", "debug">>)

(***************************************************************************)
(* C2. Idempotence: after a first run on a clean target, a further run     *)
(* with the same project name raises nothing and ends in the filesystem    *)
(* state (paths, kinds, contents) the run before it ended in.              *)
(***************************************************************************)
C2_Idempotent ==
  (runs >= 2 /\ StartedClean)
    => /\ exc = "none"
       /\ pc = "done" => fs = snap

C2_Witness ==
  /\ pc = "done"
  /\ runs = 2
  /\ StartedClean
  /\ HasText(fs, ReadmePath, ReadmeText)
  /\ HasText(snap, ReadmePath, ReadmeText)

(***************************************************************************)
(* C3. As claimed: after a complete run every file of the tree with a      *)
(* recognized source-code suffix and a name outside the ignore set holds   *)
(* exactly its placeholder line.                                           *)
(***************************************************************************)
C3_Original ==
  pc = "done"
    => \A p \in FileLeaves(base, tree) :
         (IsCodeFile(Last(p)) /\ Last(p) \notin DefaultIgnore)
           => HasText(fs, p, TodoLine(Last(p)))

(***************************************************************************)
(* C3, amended. After a complete run every file of the tree with a         *)
(* recognized source-code suffix and a name outside the ignore set, except *)
(* lucid-engine/build/lucid-stack-builder.py, holds exactly its            *)
(* placeholder line; that one file holds the build-script text that main   *)
(* writes after the walk.                                                  *)
(***************************************************************************)
C3_PlaceholderExceptBuilder ==
  pc = "done"
    => /\ \A p \in FileLeaves(base, tree) :
            (IsCodeFile(Last(p)) /\ Last(p) \notin DefaultIgnore /\ p # BuilderPath)
              => HasText(fs, p, TodoLine(Last(p)))
       /\ HasText(fs, BuilderPath, BuilderText)

C3_Witness ==
  /\ pc = "done"
  /\ HasText(fs, base \o <<"examples", "lucid-mp-demo", "src", "main.rs">>, "// TODO: Implement main.rs\n")
  /\ HasText(fs, base \o <<"lucid-engine", "stacks", "Lucid-Alrena", "src", "pipelines", "LA_AIDebugger.py">>,
             "// TODO: Implement LA_AIDebugger.py\n")
  /\ ~HasText(fs, BuilderPath, TodoLine("lucid-stack-builder.py"))

(***************************************************************************)
(* C4. As claimed: after a complete run from a clean target (the first     *)
(* and any later one) every file of the tree whose name is in the ignore   *)
(* set is present and empty.                                               *)
(***************************************************************************)
C4_Original ==
  (pc = "done" /\ StartedClean)
    => \A p \in FileLeaves(base, tree) :
         Last(p) \in DefaultIgnore => HasText(fs, p, "")

(***************************************************************************)
(* C4, amended. After a complete run from a clean target (the first and    *)
(* any later one) every file of the tree whose name is in the ignore set   *)
(* is present, and it is empty unless it is one of lucid-engine/README.md, *)
(* lucid-engine/LICENSE.md and .gitignore, which main overwrites after the *)
(* walk.                                                                   *)
(***************************************************************************)
C4_IgnoredEmptyExceptOverwritten ==
  (pc = "done" /\ StartedClean)
    => \A p \in FileLeaves(base, tree) :
         Last(p) \in DefaultIgnore
           => /\ IsFile(fs, p)
              /\ p \notin {ReadmePath, LicensePath, GitignorePath} => fs[p].content = ""

C4_Witness ==
  /\ pc = "done"
  /\ runs = 2
  /\ StartedClean
  /\ HasText(fs, base \o <<"lucid-engine", "build", "CMakeLists.txt">>, "")
  /\ HasText(fs, base \o <<"examples", "lucid-mp-demo", "Cargo.toml">>, "")
  /\ ~HasText(fs, ReadmePath, "")

(***************************************************************************)
(* C5. After every complete run of main, whatever was on disk before, the  *)
(* four post-walk files hold exactly their fixed literal texts.            *)
(***************************************************************************)
C5_FixedTexts ==
  pc = "done"
    => /\ HasText(fs, ReadmePath, ReadmeText)
       /\ HasText(fs, LicensePath, LicenseText)
       /\ HasText(fs, BuilderPath, BuilderText)
       /\ HasText(fs, GitignorePath, GitignoreText)

C5_Witness ==
  /\ pc = "done"
  /\ HasText(fs0, GitignorePath, "node_modules/\n")
  /\ HasText(fs, GitignorePath, GitignoreText)
  /\ HasText(fs, BuilderPath, BuilderText)

\* The running frame handles a file entry and the walk goes on.
FileStepDone ==
  /\ AtEntry
  /\ Top.tree[Top.i].subtree_is_None
  /\ pc' = "walk"
  /\ exc' = "none"
  /\ stack' # stack

EntryName == Top.tree[Top.i].name

EntryPath == Join(Top.base_path, EntryName)

(***************************************************************************)
(* C6. A failure of any directory or file operation leaves the program at  *)
(* once with every call frame unwound: the step that fails keeps every     *)
(* entry that existed before it, and nothing on disk changes afterwards    *)
(* (no later entry, no post-walk write, no rollback).                      *)
(***************************************************************************)
C6_FailureAborts ==
  /\ [](exc # "none" => (pc = "failed" /\ stack = <<>>))
  /\ [][(exc = "none" /\ exc' # "none")
          => \A p \in DOMAIN fs : Exists(fs', p) /\ fs'[p] = fs[p]]_vars
  /\ [][exc # "none" => fs' = fs]_vars

C6_Witness ==
  /\ pc = "failed"
  /\ exc = "FileExistsError"
  /\ HasText(fs, base \o <<"Content">>, "notes\n")
  /\ Created(base \o <<"lucid-engine", "core", "archetypes", "NeuralNPC.ecs">>)
  /\ ~Exists(fs, base \o <<"Source">>)
  /\ HasText(fs, ReadmePath, "")

(***************************************************************************)
(* C7. A leaf whose name is in the ignore set is created empty when its    *)
(* path is absent; when the path exists the step raises nothing and leaves *)
(* the filesystem as it is.  So a Cargo.toml or CMakeLists.txt of the tree *)
(* that was a file before the first run has its old content after a        *)
(* complete run.                                                           *)
(***************************************************************************)
C7_IgnoredLeafKept ==
  /\ [][(AtEntry /\ stack' # stack /\ Top.tree[Top.i].subtree_is_None
           /\ EntryName \in Top.ignore_files)
          => /\ exc' = "none"
             /\ fs' = IF Exists(fs, EntryPath) THEN fs
                      ELSE Put(fs, EntryPath, FileEntry(""))]_vars
  /\ [](pc = "done"
          => \A p \in FileLeaves(base, tree) :
               (Last(p) \in {"Cargo.toml", "CMakeLists.txt"} /\ IsFile(fs0, p))
                 => fs[p] = fs0[p])

C7_Witness ==
  /\ pc = "done"
  /\ runs = 2
  /\ HasText(fs0, base \o <<"lucid-engine", "workspaces", "meta", "unicity", "Cargo.toml">>, "[package]\n")
  /\ HasText(fs, base \o <<"lucid-engine", "workspaces", "meta", "unicity", "Cargo.toml">>, "[package]\n")

(***************************************************************************)
(* C9. When the walk handles a leaf outside the ignore set whose path is   *)
(* already a regular file, a name with a source-code suffix gets exactly   *)
(* its placeholder line whatever the file held, and any other name leaves  *)
(* the file as it is.                                                      *)
(***************************************************************************)
C9_RerunOverwritePolicy ==
  [][(FileStepDone /\ EntryName \notin Top.ignore_files /\ IsFile(fs, EntryPath))
       => fs' = IF IsCodeFile(EntryName)
                  THEN Put(fs, EntryPath, FileEntry(TodoLine(EntryName)))
                  ELSE fs]_vars

C9_Witness ==
  /\ pc = "write_readme"
  /\ runs = 2
  /\ HasText(snap, BuilderPath, BuilderText)
  /\ HasText(fs, BuilderPath, TodoLine("lucid-stack-builder.py"))
  /\ HasText(fs0, base \o <<"Config", "DefaultEngine.ini">>, "[core]\n")
  /\ HasText(fs, base \o <<"Config", "DefaultEngine.ini">>, "[core]\n")

(***************************************************************************)
(* C10. Parent before child: in every state of a run, aborted runs         *)
(* included, every path that exists has an existing parent directory, and  *)
(* every call frame works in a directory that exists, so a directory is    *)
(* there before any of its entries is handled.                             *)
(***************************************************************************)
C10_ParentBeforeChild ==
  /\ \A p \in DOMAIN fs : p # <<>> => IsDir(fs, Parent(p))
  /\ \A k \in 1..Len(stack) : IsDir(fs, stack[k].base_path)

C10_Witness ==
  /\ pc = "failed"
  /\ exc = "IsADirectoryError"
  /\ StartedClean = FALSE
  /\ Created(base \o <<"Telemetry", "session-2025-10-07.json">>)
  /\ Created(base \o <<"examples", "lucid-mp-demo", "Cargo.toml">>)

(***************************************************************************)
(* C8. As claimed: the ignore_files set given to the outermost call        *)
(* governs every leaf at every depth: a leaf whose name is in the set      *)
(* does not receive its placeholder line, and a leaf whose name is not in  *)
(* the set is handled as a non-ignored leaf (a source-code name receives   *)
(* its placeholder line).                                                  *)
(***************************************************************************)
C8_GivenSetGovernsEveryDepth ==
  [][(FileStepDone /\ runs = 0)
       => IF EntryName \in stack[1].ignore_files
            THEN ~HasText(fs', EntryPath, TodoLine(EntryName))
            ELSE IsCodeFile(EntryName) => HasText(fs', EntryPath, TodoLine(EntryName))]_vars

\* The set of the paths taken up so far.
HandledSet == {handled[k] : k \in 1..Len(handled)}

(***************************************************************************)
(* C11. A call of create_directory_tree in which no filesystem operation   *)
(* fails returns, and it takes up each entry of its tree description       *)
(* exactly once: no path is taken up twice, and when the loop of the       *)
(* outermost call is exhausted the paths taken up are exactly the paths of *)
(* the flattened description.                                              *)
(***************************************************************************)
C11_TerminatesEachEntryOnce ==
  /\ <>(pc = "returned" \/ exc # "none")
  /\ [](Cardinality(HandledSet) = Len(handled))
  /\ []((pc = "walk" /\ Len(stack) = 1 /\ Top.i > Len(Top.tree))
         => HandledSet = Flatten(Top.base_path, Top.tree))

C11_Witness ==
  /\ pc = "returned"
  /\ exc = "none"
  /\ Len(handled) = Cardinality(Flatten(Path("out"), tree))
  /\ handled[1] = <<"out", "lucid-engine">>
  /\ handled[Len(handled)] = <<"out", ".gitignore">>

====
